---- MODULE Spec2Model ----
(***************************************************************************)
(* Control catalog, scope resolution and question materialization of the   *)
(* GRC platform, modelled at the level of the model-layer operations:      *)
(*   standards/models.py          ControlNode (clean, get_depth, ...)      *)
(*   assessments/materialization.py  get_scoped_controls, materialize,     *)
(*                                rematerialize                            *)
(* Tables are sets of rows (records); a primary key is a small integer.    *)
(***************************************************************************)
EXTENDS Integers, Sequences, FiniteSets, TLC, Bags

(* ---------------------------- bounds ----------------------------------- *)
\* number of ControlNode primary keys available to the catalog
MaxNodes == 3
\* number of AssessmentQuestion / Response primary keys that can be handed out
MaxRows == 3

(* ------------------------- program constants --------------------------- *)
\* parent = ForeignKey('self', null=True): the null reference
NULL == 0

NODE_TYPE_CHOICES == {"domain", "sub_domain", "control", "sub_control"}

STATUS_CHOICES == {"active", "deprecated", "draft"}

NodeIds == 1..MaxNodes

\* the StandardVersion rows control nodes and assessments can point to
StandardVersions == {"v1", "v2"}

\* the QuestionBank rows control-question mappings can point to
QuestionBankIds == {"q1", "q2"}

VARIABLES
    control_node,         \* table control_node: rows [id, node_type, parent, status, standard_version]
    lastOp,               \* the validated write being answered: [op, id, node_type, parent, outcome]
    assessment,           \* the Assessment row under study: [standard_version]
    assessment_scope,     \* table assessment_scope of that assessment: rows [control_node, include_children]
    control_question_map, \* table control_question_map: rows [control_node, question_bank]
    assessment_question,  \* table assessment_question of that assessment:
                          \*   rows [id, control_node, source_question, question_text]
    response,             \* table response: rows [id, assessment_question]
    next_pk,              \* the next fresh primary key (uuid4) for assessment_question / response
    lastCall,             \* the call into materialization.py being answered: what it returned or raised
    calls,                \* the generate_questions requests in flight, one record per worker
    question_bank,        \* table question_bank: rows [id, question_text]
    user_role,            \* table user_role: rows [user, scope_type, scope_id]
    lastRole,             \* the iam call being answered: its arguments and what it returned or raised
    response_row,         \* the Response row under study: [status, submitted_at, maturity_score, ...]
    lastResp,             \* the Response method call being answered: [op, outcome]
    finding,              \* table finding: a bag of rows [tenant, finding_number, assessment]
                          \*   (the uuid primary key is left out: equal rows are counted)
    creators,             \* the Finding.save() calls in flight, one record per worker
    assessments           \* ids of the stored Assessment rows ("a1" is the one under study)

catVars == <<control_node, lastOp>>
asmVars == <<assessment, assessment_scope>>
matVars == <<control_question_map, assessment_question, response, next_pk>>
concVars == <<calls>>
bankVars == <<question_bank>>
iamVars == <<user_role, lastRole>>
respVars == <<response_row, lastResp>>
findVars == <<finding, creators, assessments>>
extVars == <<concVars, bankVars, iamVars, respVars, findVars>>
vars == <<catVars, asmVars, matVars, lastCall, extVars>>

(* ----------------------- ControlNode: tree helpers --------------------- *)
Ids(table) == {r.id : r \in table}

Row(table, id) == CHOOSE r \in table : r.id = id

\* node.parent (the id of the parent row, or NULL)
ParentOf(table, id) == IF id \in Ids(table) THEN Row(table, id).parent ELSE NULL

\* node.children.all(): the rows whose parent is the node
Children(table, id) == {r.id : r \in {c \in table : c.parent = id}}

\* ControlNode.get_depth: hops to a null parent. The loop has no guard: on a
\* cyclic chain it never returns, which the model reports as -1.
RECURSIVE DepthWalk(_, _, _)
DepthWalk(table, p, fuel) ==
    IF p = NULL THEN 0
    ELSE IF fuel = 0 THEN -1
    ELSE LET d == DepthWalk(table, ParentOf(table, p), fuel - 1)
         IN  IF d = -1 THEN -1 ELSE d + 1

get_depth(table, id) == DepthWalk(table, ParentOf(table, id), Cardinality(table))

\* the node reached from id after k applications of .parent (NULL stays NULL)
RECURSIVE NthParent(_, _, _)
NthParent(table, id, k) ==
    IF k = 0 \/ id = NULL THEN id
    ELSE NthParent(table, ParentOf(table, id), k - 1)

\* the ids on the chain p, p.parent, p.parent.parent, ... (each visited once)
RECURSIVE ChainFrom(_, _, _)
ChainFrom(table, p, seen) ==
    IF p = NULL \/ p \in seen THEN seen
    ELSE ChainFrom(table, ParentOf(table, p), seen \cup {p})

\* rows removed by deleting id: parent is on_delete=CASCADE, so the whole subtree
CascadeSet(table, id) == {r \in table : id \in ChainFrom(table, r.id, {})}

(* ----------------------- ControlNode.clean ------------------------------ *)
\* while parent: if parent.id in visited: raise; visited.add; parent = parent.parent
RECURSIVE CycleWalk(_, _, _)
CycleWalk(table, p, visited) ==
    IF p = NULL THEN FALSE
    ELSE IF p \in visited THEN TRUE
    ELSE CycleWalk(table, ParentOf(table, p), visited \cup {p})

valid_hierarchies ==
    [sub_domain  |-> {"domain"},
     control     |-> {"domain", "sub_domain"},
     sub_control |-> {"control"}]

OK == "ok"
CIRCULAR == "ValidationError: Circular parent reference detected"
BADTYPE == "ValidationError: node_type cannot have parent of that type"

\* a clean() without the circular-reference block
clean_NoCycleCheck(table, self) ==
    IF self.parent = NULL THEN OK
    ELSE IF /\ self.node_type \in DOMAIN valid_hierarchies
            /\ Row(table, self.parent).node_type \notin valid_hierarchies[self.node_type]
         THEN BADTYPE
    ELSE OK

\* a clean() that forgets the ancestor walk and only looks at the node itself
clean_SelfOnly(table, self) ==
    IF self.parent = NULL THEN OK
    ELSE IF self.parent = self.id THEN CIRCULAR
    ELSE IF /\ self.node_type \in DOMAIN valid_hierarchies
            /\ Row(table, self.parent).node_type \notin valid_hierarchies[self.node_type]
         THEN BADTYPE
    ELSE OK

\* a clean() whose table lets a sub_control hang under a domain
clean_LooseTable(table, self) ==
    IF self.parent = NULL THEN OK
    ELSE IF CycleWalk(table, self.parent, {self.id}) THEN CIRCULAR
    ELSE IF /\ self.node_type \in {"sub_domain", "control"}
            /\ Row(table, self.parent).node_type \notin valid_hierarchies[self.node_type]
         THEN BADTYPE
    ELSE IF /\ self.node_type = "sub_control"
            /\ Row(table, self.parent).node_type \notin {"control", "domain"}
         THEN BADTYPE
    ELSE OK

\* ControlNode.clean: self is the in-memory instance, table the stored rows
clean(table, self) ==
    IF self.parent = NULL THEN OK
    ELSE IF CycleWalk(table, self.parent, {self.id}) THEN CIRCULAR
    ELSE IF /\ self.node_type \in DOMAIN valid_hierarchies
            /\ Row(table, self.parent).node_type \notin valid_hierarchies[self.node_type]
         THEN BADTYPE
    ELSE OK

(* ----------------------- catalog operations ----------------------------- *)
NoOp == [op |-> "none", id |-> NULL, node_type |-> "domain", parent |-> NULL, outcome |-> OK]

NoCall ==
    [fn |-> "none", outcome |-> "none", controls |-> {}, questions_created |-> 0,
     controls_in_scope |-> 0, controls_with_questions |-> 0, questions_deleted |-> 0]

(* ----------------------- rows and records at rest ----------------------- *)
\* the gunicorn workers that serve requests side by side
Procs == {"w1", "w2"}

\* a worker that serves no generate_questions request
IdleCall ==
    [pc |-> "idle", controls |-> <<>>, staged |-> {}, questions_created |-> 0,
     controls_covered |-> 0, outcome |-> "none", http |-> "none"]

\* a worker that runs no Finding.save()
\* Finding.assessment of a finding that belongs to no assessment
NOASSESSMENT == "null"

IdleCreator ==
    [pc |-> "idle", tenant |-> <<>>, given |-> <<>>, assessment |-> NOASSESSMENT,
     count |-> 0, finding_number |-> <<>>, overlap |-> FALSE, outcome |-> "none"]

\* no user (None)
NOUSER == "none"

NoRoleOp ==
    [op |-> "none", user |-> NOUSER, scope_type |-> "global", scope_id |-> NULL,
     scope_field |-> "none", outcome |-> OK, granted |-> FALSE, rows |-> {}]

\* a nullable column holds <<>> for null and <<v>> for the value v
Null == <<>>

\* Response(): status default 'draft', maturity_score / submitted_at null
NewResponse(scale, payload) ==
    [status |-> "draft", submitted_at |-> Null, maturity_score |-> Null,
     scale_type |-> scale, answer_payload |-> payload]

NoRespOp == [op |-> "none", outcome |-> OK]

\* requests are served one at a time (synchronous request/response cycle): an
\* operation starts only when no outcome is waiting to be handed back
Idle == lastOp = NoOp /\ lastCall = NoCall /\ lastRole = NoRoleOp /\ lastResp = NoRespOp

\* the request ends: the outcome of the last call goes back to the caller
Return ==
    /\ ~Idle
    /\ lastOp' = NoOp
    /\ lastCall' = NoCall
    /\ lastRole' = NoRoleOp
    /\ lastResp' = NoRespOp
    /\ UNCHANGED <<control_node, asmVars, matVars, concVars, bankVars, user_role,
                   response_row, findVars>>

\* validated write of a new row: full_clean() (which runs clean) and, if it
\* raised nothing, save()
CreateNode(id, t, p, v) ==
    /\ id \notin Ids(control_node)
    /\ p \in Ids(control_node) \cup {NULL}
    /\ LET self == [id |-> id, node_type |-> t, parent |-> p,
                    status |-> "active", standard_version |-> v]
           res  == clean(control_node, self)
       IN  /\ control_node' = IF res = OK THEN control_node \cup {self} ELSE control_node
           /\ lastOp' = [op |-> "create", id |-> id, node_type |-> t, parent |-> p,
                         outcome |-> res]
    /\ UNCHANGED <<asmVars, matVars, lastCall, extVars>>

\* validated write of an existing row (node_type and parent edited together)
UpdateNode(id, t, p) ==
    /\ id \in Ids(control_node)
    /\ p \in Ids(control_node) \cup {NULL}
    /\ LET old  == Row(control_node, id)
           self == [old EXCEPT !.node_type = t, !.parent = p]
           res  == clean(control_node, self)
       IN  /\ control_node' = IF res = OK
                              THEN (control_node \ {old}) \cup {self}
                              ELSE control_node
           /\ lastOp' = [op |-> "update", id |-> id, node_type |-> t, parent |-> p,
                         outcome |-> res]
    /\ UNCHANGED <<asmVars, matVars, lastCall, extVars>>

\* delete(): the row and, by cascade, its descendants
DeleteNode(id) ==
    /\ id \in Ids(control_node)
    /\ control_node' = control_node \ CascadeSet(control_node, id)
    /\ UNCHANGED <<lastOp, asmVars, matVars, lastCall, extVars>>

\* ControlNodeViewSet update through ControlNodeListSerializer: node_type and
\* status are writable, parent is not, and the serializer never calls clean()
UpdateNodeRest(id, t, s) ==
    /\ id \in Ids(control_node)
    /\ LET old == Row(control_node, id)
       IN  control_node' = (control_node \ {old})
                              \cup {[old EXCEPT !.node_type = t, !.status = s]}
    /\ UNCHANGED <<lastOp, asmVars, matVars, lastCall, extVars>>

EmptyConc == calls = [p \in Procs |-> IdleCall]

\* the wording a QuestionBank question can carry (stands for code, text,
\* type, scale, guidance and metadata alike)
QuestionTexts == {"t0", "t1"}

\* the question library as seeded: every question present, in its first wording
StockBank == question_bank = {[id |-> q, question_text |-> "t0"] : q \in QuestionBankIds}

EmptyIam == user_role = {} /\ lastRole = NoRoleOp

EmptyResp == response_row = NewResponse("LIKERT_1_5", Null) /\ lastResp = NoRespOp

EmptyFind ==
    /\ finding = EmptyBag
    /\ creators = [p \in Procs |-> IdleCreator]
    /\ assessments = {"a1"}

\* nothing outside the catalog, the question library, the assessment's scope
\* and its questions
EmptyOtherData == EmptyConc /\ StockBank /\ EmptyIam /\ EmptyResp /\ EmptyFind

\* no assessment data: the catalog is studied on its own
EmptyAssessmentData ==
    /\ assessment = [standard_version |-> "v1"]
    /\ assessment_scope = {}
    /\ control_question_map = {}
    /\ assessment_question = {}
    /\ response = {}
    /\ next_pk = 1
    /\ lastCall = NoCall

Init ==
    /\ control_node = {}
    /\ lastOp = NoOp
    /\ EmptyAssessmentData
    /\ EmptyOtherData

Next ==
    \/ Idle /\ \E id \in NodeIds, t \in NODE_TYPE_CHOICES, p \in NodeIds \cup {NULL} :
                  CreateNode(id, t, p, "v1")
    \/ Idle /\ \E id \in NodeIds, t \in NODE_TYPE_CHOICES, p \in NodeIds \cup {NULL} :
                  UpdateNode(id, t, p)
    \/ Idle /\ \E id \in NodeIds : DeleteNode(id)
    \/ Idle /\ \E id \in NodeIds, t \in NODE_TYPE_CHOICES : UpdateNodeRest(id, t, "active")
    \/ Return

Spec == Init /\ [][Next]_vars

(* ----------------------- ControlNode.get_descendants -------------------- *)
\* the elements of a set of ids as a list in ascending order (Meta.ordering
\* is ['code']; codes are modelled in id order)
RECURSIVE SortedIds(_)
SortedIds(S) ==
    IF S = {} THEN <<>>
    ELSE LET m == CHOOSE x \in S : \A y \in S : x <= y
         IN  <<m>> \o SortedIds(S \ {m})

SeqToSet(q) == {q[i] : i \in 1..Len(q)}

\* get_descendants: a Python list, pre-order: each child followed by its own
\* descendants
RECURSIVE get_descendants(_, _)
RECURSIVE DescendList(_, _)
DescendList(table, kids) ==
    IF kids = <<>> THEN <<>>
    ELSE <<Head(kids)>> \o get_descendants(table, Head(kids)) \o DescendList(table, Tail(kids))

get_descendants(table, id) == DescendList(table, SortedIds(Children(table, id)))

(* ----------------------- get_scoped_controls ---------------------------- *)
\* the attributes a Python list answers to; a QuerySet method is not one
ListAttributes ==
    {"append", "clear", "copy", "count", "extend", "index", "insert", "pop",
     "remove", "reverse", "sort"}

\* descendants.values_list('id', flat=True), descendants being the list
\* get_descendants returned
values_list(descendants) ==
    IF "values_list" \in ListAttributes
    THEN [error |-> "none", ids |-> SeqToSet(descendants)]
    ELSE [error |-> "AttributeError", ids |-> {}]

\* ControlNode.objects.filter(standard_version=..., status='active')
ActiveOfVersion(table, v) ==
    {r.id : r \in {n \in table : n.standard_version = v /\ n.status = "active"}}

\* a default branch that forgets status='active'
DefaultScope_AnyStatus(table, asmt) ==
    {r.id : r \in {n \in table : n.standard_version = asmt.standard_version}}

\* the branch taken when assessment.scopes is empty
DefaultScope(table, asmt) == ActiveOfVersion(table, asmt.standard_version)

\* ControlNode.objects.filter(id__in=control_ids, status='active')
ActiveAmong(table, control_ids) ==
    {r.id : r \in {n \in table : n.id \in control_ids /\ n.status = "active"}}

\* the loop over assessment.scopes.all(): collects ids, or stops at the first
\* exception
RECURSIVE CollectScopes(_, _, _)
CollectScopes(table, scopes, control_ids) ==
    IF scopes = {} THEN [error |-> "none", ids |-> control_ids]
    ELSE LET scope == CHOOSE x \in scopes : TRUE
             ids1  == control_ids \cup {scope.control_node}
         IN  IF scope.include_children
             THEN LET d == values_list(get_descendants(table, scope.control_node))
                  IN  IF d.error # "none" THEN [error |-> d.error, ids |-> {}]
                      ELSE CollectScopes(table, scopes \ {scope}, ids1 \cup d.ids)
             ELSE CollectScopes(table, scopes \ {scope}, ids1)

\* get_scoped_controls(assessment): [error, controls]
get_scoped_controls(table, asmt, scopes) ==
    IF scopes = {}
    THEN [error |-> "none", controls |-> DefaultScope(table, asmt)]
    ELSE LET c == CollectScopes(table, scopes, {})
         IN  IF c.error # "none" THEN [error |-> c.error, controls |-> {}]
             ELSE [error |-> "none", controls |-> ActiveAmong(table, c.ids)]

(* ----------------------- scope operations ------------------------------- *)
\* number of AssessmentScope rows the assessment may hold
MaxScopes == 2

\* AssessmentScopeViewSet create (unique_together: one row per control node)
AddScope(c, ic) ==
    /\ Cardinality(assessment_scope) < MaxScopes
    /\ c \in Ids(control_node)
    /\ \A s \in assessment_scope : s.control_node # c
    /\ assessment_scope' = assessment_scope \cup {[control_node |-> c, include_children |-> ic]}
    /\ UNCHANGED <<catVars, assessment, matVars, lastCall, extVars>>

\* AssessmentScopeViewSet destroy
RemoveScope(s) ==
    /\ s \in assessment_scope
    /\ assessment_scope' = assessment_scope \ {s}
    /\ UNCHANGED <<catVars, assessment, matVars, lastCall, extVars>>

\* a call of get_scoped_controls(assessment)
ResolveScope ==
    /\ LET r == get_scoped_controls(control_node, assessment, assessment_scope)
       IN  lastCall' = [NoCall EXCEPT !.fn = "resolve_scope",
                                      !.outcome = IF r.error = "none" THEN "success" ELSE r.error,
                                      !.controls = r.controls]
    /\ UNCHANGED <<catVars, asmVars, matVars, extVars>>

\* node types down a chain of validated writes: a root domain, then
\* sub_domain, control, sub_control
TypeAtDepth(d) ==
    IF d = 0 THEN "domain" ELSE IF d = 1 THEN "sub_domain"
    ELSE IF d = 2 THEN "control" ELSE "sub_control"

\* the catalogs scope resolution is studied on: forests over NodeIds (each
\* parent has a smaller id), any status and standard version per node; the
\* assessment is of version "v1", so "v2" nodes are those of another version
ParentMaps == {f \in [NodeIds -> NodeIds \cup {NULL}] : \A i \in NodeIds : f[i] < i}

RECURSIVE DepthIn(_, _)
DepthIn(f, i) == IF f[i] = NULL THEN 0 ELSE 1 + DepthIn(f, f[i])

Catalog(f, st, ver) ==
    {[id |-> i, node_type |-> TypeAtDepth(DepthIn(f, i)), parent |-> f[i],
      status |-> st[i], standard_version |-> ver[i]] : i \in NodeIds}

InitScope ==
    /\ \E f \in ParentMaps, st \in [NodeIds -> STATUS_CHOICES],
          ver \in [NodeIds -> StandardVersions] :
          control_node = Catalog(f, st, ver)
    /\ lastOp = NoOp
    /\ EmptyAssessmentData
    /\ EmptyOtherData

NextScope ==
    \/ Idle /\ \E c \in NodeIds, ic \in BOOLEAN : AddScope(c, ic)
    \/ Idle /\ \E s \in assessment_scope : RemoveScope(s)
    \/ Idle /\ ResolveScope
    \/ Return

SpecScope == InitScope /\ [][NextScope]_vars


(* ----------------------- materialize_assessment_questions --------------- *)
\* the columns and relations ControlQuestionMap declares
ControlQuestionMapFields ==
    {"id", "tenant", "control_node", "question_bank", "rationale",
     "criticality_override", "created_at", "updated_at"}

\* source_question of an AssessmentQuestion that has no bank question
NOSOURCE == "null"

\* ControlQuestionMap.objects.filter(control_node=control, is_active=True):
\* the ORM resolves every keyword against the model's fields when filter()
\* is called and raises FieldError for a keyword that names none
\* (the table has no is_active column, so no stored mapping is left out)
question_maps_filter(maps, control) ==
    IF {"control_node", "is_active"} \subseteq ControlQuestionMapFields
    THEN [error |-> "none", rows |-> {m \in maps : m.control_node = control}]
    ELSE [error |-> "FieldError", rows |-> {}]

\* AssessmentQuestion.objects.create(...) for every mapping of one control,
\* each row under a fresh primary key
\* question.question_text of the bank question a mapping or a row points to
QuestionText(q) == (CHOOSE b \in question_bank : b.id = q).question_text

RECURSIVE CreateRows(_, _, _)
CreateRows(qmaps, control, pk) ==
    IF qmaps = {} THEN {}
    ELSE LET qmap == CHOOSE m \in qmaps : TRUE
         IN  {[id |-> pk, control_node |-> control, source_question |-> qmap.question_bank,
               question_text |-> QuestionText(qmap.question_bank)]}
               \cup CreateRows(qmaps \ {qmap}, control, pk + 1)

\* the body of `for control in scoped_controls`, folded over the controls in
\* queryset order; acc = [error, rows, pk, questions_created, controls_covered]
RECURSIVE MaterializeLoop(_, _, _)
MaterializeLoop(controls, maps, acc) ==
    IF controls = <<>> \/ acc.error # "none" THEN acc
    ELSE LET control == Head(controls)
             qm      == question_maps_filter(maps, control)
         IN  IF qm.error # "none"
             THEN [acc EXCEPT !.error = qm.error]
             ELSE IF {"question", "display_order", "is_mandatory"}
                        \subseteq ControlQuestionMapFields
             THEN MaterializeLoop(Tail(controls), maps,
                     [acc EXCEPT
                        !.rows = @ \cup CreateRows(qm.rows, control, acc.pk),
                        !.pk = @ + Cardinality(qm.rows),
                        !.questions_created = @ + Cardinality(qm.rows),
                        !.controls_covered = @ + (IF qm.rows # {} THEN 1 ELSE 0)])
             ELSE \* select_related('question') / qmap.question name no field
                  [acc EXCEPT !.error = "FieldError",
                              !.controls_covered = @ + (IF qm.rows # {} THEN 1 ELSE 0)]

\* a block whose writes stay whatever way it ends
transaction_atomic_NoRollback(before, after, error) == after

\* with transaction.atomic(): the block's writes are kept only if it ends
\* without an exception
transaction_atomic(before, after, error) == IF error = "none" THEN after ELSE before

\* materialize_assessment_questions(assessment):
\* [outcome, rows (the table afterwards), pk, and the returned statistics]
materialize_assessment_questions(table, asmt, scopes, maps, rows, pk) ==
    LET scoped == get_scoped_controls(table, asmt, scopes)
    IN  IF scoped.error # "none"
        THEN [outcome |-> scoped.error, rows |-> rows, pk |-> pk, questions_created |-> 0,
              controls_in_scope |-> 0, controls_with_questions |-> 0]
        ELSE LET run == MaterializeLoop(SortedIds(scoped.controls), maps,
                            [error |-> "none", rows |-> {}, pk |-> pk,
                             questions_created |-> 0, controls_covered |-> 0])
             IN  IF run.error # "none"
                 THEN [outcome |-> run.error,
                       rows |-> transaction_atomic(rows, rows \cup run.rows, run.error),
                       pk |-> pk, questions_created |-> 0,
                       controls_in_scope |-> 0, controls_with_questions |-> 0]
                 ELSE [outcome |-> "success",
                       rows |-> transaction_atomic(rows, rows \cup run.rows, run.error),
                       pk |-> run.pk,
                       questions_created |-> run.questions_created,
                       controls_in_scope |-> Cardinality(scoped.controls),
                       controls_with_questions |-> run.controls_covered]

(* ----------------------- materialization operations --------------------- *)
\* number of ControlQuestionMap rows that may be stored
MaxMaps == 2

\* ControlQuestionMapViewSet create (unique_together: control_node, question_bank)
AddMap(c, q) ==
    /\ Cardinality(control_question_map) < MaxMaps
    /\ c \in Ids(control_node)
    /\ q \in Ids(question_bank)
    /\ [control_node |-> c, question_bank |-> q] \notin control_question_map
    /\ control_question_map' =
           control_question_map \cup {[control_node |-> c, question_bank |-> q]}
    /\ UNCHANGED <<catVars, asmVars, assessment_question, response, next_pk, lastCall, extVars>>

\* ControlQuestionMapViewSet destroy
RemoveMap(m) ==
    /\ m \in control_question_map
    /\ control_question_map' = control_question_map \ {m}
    /\ UNCHANGED <<catVars, asmVars, assessment_question, response, next_pk, lastCall, extVars>>

\* AssessmentQuestionAdmin add: a question row entered by hand, with or
\* without a source question
AddQuestionAdmin(c, q, text) ==
    /\ next_pk <= MaxRows
    /\ c \in Ids(control_node)
    /\ q \in Ids(question_bank) \cup {NOSOURCE}
    /\ assessment_question' = assessment_question
           \cup {[id |-> next_pk, control_node |-> c, source_question |-> q,
                  question_text |-> text]}
    /\ next_pk' = next_pk + 1
    /\ UNCHANGED <<catVars, asmVars, control_question_map, response, lastCall, extVars>>

\* ResponseViewSet create: one response per (assessment, assessment_question)
AddResponse(q) ==
    /\ next_pk <= MaxRows
    /\ q \in Ids(assessment_question)
    /\ \A r \in response : r.assessment_question # q
    /\ response' = response \cup {[id |-> next_pk, assessment_question |-> q]}
    /\ next_pk' = next_pk + 1
    /\ UNCHANGED <<catVars, asmVars, control_question_map, assessment_question, lastCall, extVars>>

\* a call of materialize_assessment_questions(assessment)
Materialize ==
    /\ LET m == materialize_assessment_questions(control_node, assessment, assessment_scope,
                    control_question_map, assessment_question, next_pk)
       IN  /\ assessment_question' = m.rows
           /\ next_pk' = m.pk
           /\ lastCall' = [NoCall EXCEPT !.fn = "materialize",
                             !.outcome = m.outcome,
                             !.questions_created = m.questions_created,
                             !.controls_in_scope = m.controls_in_scope,
                             !.controls_with_questions = m.controls_with_questions]
    /\ UNCHANGED <<catVars, asmVars, control_question_map, response, extVars>>

\* rows of a table that reference none of the deleted questions
\* (Response.assessment_question is on_delete=CASCADE)
CascadeResponses(resp, deleted) == {r \in resp : r.assessment_question \notin Ids(deleted)}

\* a call of rematerialize_assessment_questions(assessment): count, delete
\* and re-materialize inside one atomic block
Rematerialize ==
    /\ LET deleted_count == Cardinality(assessment_question)
           m == materialize_assessment_questions(control_node, assessment, assessment_scope,
                    control_question_map, {}, next_pk)
           error == IF m.outcome = "success" THEN "none" ELSE m.outcome
       IN  /\ assessment_question' = transaction_atomic(assessment_question, m.rows, error)
           /\ response' = transaction_atomic(response,
                              CascadeResponses(response, assessment_question), error)
           /\ next_pk' = m.pk
           /\ lastCall' = [NoCall EXCEPT !.fn = "rematerialize",
                             !.outcome = m.outcome,
                             !.questions_created = m.questions_created,
                             !.controls_in_scope = m.controls_in_scope,
                             !.controls_with_questions = m.controls_with_questions,
                             !.questions_deleted = IF error = "none" THEN deleted_count ELSE 0]
    /\ UNCHANGED <<catVars, asmVars, control_question_map, extVars>>

\* the catalogs materialization is studied on: one chain root - child -
\* grandchild ... in the standard version v1, any status per node
ChainParent == [i \in NodeIds |-> i - 1]

InitMat ==
    /\ \E st \in [NodeIds -> STATUS_CHOICES] :
          control_node = Catalog(ChainParent, st, [i \in NodeIds |-> "v1"])
    /\ lastOp = NoOp
    /\ assessment \in [standard_version : StandardVersions]
    /\ assessment_scope \in
          {{}} \cup {{[control_node |-> c, include_children |-> ic]} :
                        c \in NodeIds, ic \in BOOLEAN}
    /\ control_question_map = {}
    /\ assessment_question = {}
    /\ response = {}
    /\ next_pk = 1
    /\ lastCall = NoCall
    /\ EmptyOtherData

NextMat ==
    \/ Idle /\ \E c \in NodeIds, q \in QuestionBankIds : AddMap(c, q)
    \/ Idle /\ \E m \in control_question_map : RemoveMap(m)
    \/ Idle /\ AddQuestionAdmin(1, NOSOURCE, "t0")
    \/ Idle /\ \E q \in Ids(assessment_question) : AddResponse(q)
    \/ Idle /\ Materialize
    \/ Idle /\ Rematerialize
    \/ Return

SpecMat == InitMat /\ [][NextMat]_vars

(* ----------------------- generate_questions, request by request --------- *)
\* the keys of the dict materialize_assessment_questions returns
ResultKeys == {"questions_created", "controls_in_scope", "controls_with_questions", "status"}

\* AssessmentViewSet.generate_questions up to the first query of the atomic
\* block: get_scoped_controls(assessment), then `for control in scoped_controls`
\* reads the controls
BeginCall(p) ==
    /\ calls[p].pc = "idle"
    /\ LET scoped == get_scoped_controls(control_node, assessment, assessment_scope)
       IN  calls' = [calls EXCEPT ![p] =
                IF scoped.error # "none"
                THEN [@ EXCEPT !.pc = "done", !.outcome = scoped.error, !.http = "500"]
                ELSE [@ EXCEPT !.pc = "in_atomic", !.controls = SortedIds(scoped.controls)]]
    /\ UNCHANGED <<catVars, asmVars, matVars, lastCall, bankVars, iamVars, respVars, findVars>>

\* one pass of the loop body for the next control; the rows it creates stay
\* inside the worker's open transaction, an exception leaves the block and
\* rolls it back
LoopStep(p) ==
    /\ calls[p].pc = "in_atomic"
    /\ calls[p].controls # <<>>
    /\ LET c   == calls[p]
           run == MaterializeLoop(<<Head(c.controls)>>, control_question_map,
                      [error |-> "none", rows |-> c.staged, pk |-> next_pk,
                       questions_created |-> c.questions_created,
                       controls_covered |-> c.controls_covered])
       IN  /\ calls' = [calls EXCEPT ![p] =
                  IF run.error # "none"
                  THEN [@ EXCEPT !.pc = "done", !.controls = <<>>,
                                 !.staged = transaction_atomic({}, run.rows, run.error),
                                 !.questions_created = 0, !.controls_covered = 0,
                                 !.outcome = run.error, !.http = "500"]
                  ELSE [@ EXCEPT !.controls = Tail(c.controls), !.staged = run.rows,
                                 !.questions_created = run.questions_created,
                                 !.controls_covered = run.controls_covered]]
           /\ next_pk' = IF run.error # "none" THEN next_pk ELSE run.pk
    /\ UNCHANGED <<catVars, asmVars, control_question_map, assessment_question, response,
                   lastCall, bankVars, iamVars, respVars, findVars>>

\* the atomic block ends: the worker's rows are committed and the function
\* returns its dict
CommitCall(p) ==
    /\ calls[p].pc = "in_atomic"
    /\ calls[p].controls = <<>>
    /\ assessment_question' = assessment_question \cup calls[p].staged
    /\ calls' = [calls EXCEPT ![p] = [@ EXCEPT !.pc = "returned", !.staged = {},
                                                !.outcome = "success"]]
    /\ UNCHANGED <<catVars, asmVars, control_question_map, response, next_pk,
                   lastCall, bankVars, iamVars, respVars, findVars>>

\* the view builds its response from result['created'] and result['total']
RespondCall(p) ==
    /\ calls[p].pc = "returned"
    /\ calls' = [calls EXCEPT ![p] =
           [@ EXCEPT !.pc = "done",
                     !.http = IF {"created", "total"} \subseteq ResultKeys
                              THEN "200" ELSE "500"]]
    /\ UNCHANGED <<catVars, asmVars, matVars, lastCall, bankVars, iamVars, respVars, findVars>>

\* the mappings stored before the requests arrive: any set of at most MaxMaps
MapSets ==
    {ms \in SUBSET [control_node : NodeIds, question_bank : QuestionBankIds] :
        Cardinality(ms) <= MaxMaps}

InitConc ==
    /\ \E st \in [NodeIds -> STATUS_CHOICES] :
          control_node = Catalog(ChainParent, st, [i \in NodeIds |-> "v1"])
    /\ lastOp = NoOp
    /\ assessment \in [standard_version : StandardVersions]
    /\ assessment_scope \in
          {{}} \cup {{[control_node |-> c, include_children |-> ic]} :
                        c \in NodeIds, ic \in BOOLEAN}
    /\ control_question_map \in MapSets
    /\ assessment_question = {}
    /\ response = {}
    /\ next_pk = 1
    /\ lastCall = NoCall
    /\ EmptyOtherData

NextConc ==
    \/ \E p \in Procs : BeginCall(p)
    \/ \E p \in Procs : LoopStep(p)
    \/ \E p \in Procs : CommitCall(p)
    \/ \E p \in Procs : RespondCall(p)

SpecConc == InitConc /\ [][NextConc]_vars

(* ----------------------- question library operations -------------------- *)
\* QuestionBankViewSet update: the question is reworded in place
EditQuestion(q, text) ==
    /\ q \in Ids(question_bank)
    /\ question_bank' = {IF b.id = q THEN [b EXCEPT !.question_text = text] ELSE b :
                             b \in question_bank}
    /\ UNCHANGED <<catVars, asmVars, matVars, lastCall, concVars, iamVars, respVars, findVars>>

\* a QuestionBank delete that takes the questions copied from it along
DeleteQuestion_Cascade(q) ==
    /\ q \in Ids(question_bank)
    /\ question_bank' = {b \in question_bank : b.id # q}
    /\ control_question_map' = {m \in control_question_map : m.question_bank # q}
    /\ assessment_question' = {r \in assessment_question : r.source_question # q}
    /\ UNCHANGED <<catVars, asmVars, response, next_pk, lastCall,
                   concVars, iamVars, respVars, findVars>>

\* QuestionBankViewSet destroy: ControlQuestionMap.question_bank is CASCADE,
\* AssessmentQuestion.source_question is SET_NULL
DeleteQuestion(q) ==
    /\ q \in Ids(question_bank)
    /\ question_bank' = {b \in question_bank : b.id # q}
    /\ control_question_map' = {m \in control_question_map : m.question_bank # q}
    /\ assessment_question' =
          {IF r.source_question = q THEN [r EXCEPT !.source_question = NOSOURCE] ELSE r :
              r \in assessment_question}
    /\ UNCHANGED <<catVars, asmVars, response, next_pk, lastCall,
                   concVars, iamVars, respVars, findVars>>

\* the library is studied on the chain catalog, every node active, with the
\* mappings stored beforehand
InitBank ==
    /\ control_node = Catalog(ChainParent, [i \in NodeIds |-> "active"],
                              [i \in NodeIds |-> "v1"])
    /\ lastOp = NoOp
    /\ EmptyAssessmentData
    /\ EmptyOtherData

NextBank ==
    \/ Idle /\ \E q \in QuestionBankIds, text \in QuestionTexts : EditQuestion(q, text)
    \/ Idle /\ \E q \in QuestionBankIds : DeleteQuestion(q)
    \/ Idle /\ \E q \in Ids(question_bank) : AddQuestionAdmin(1, q, QuestionText(q))
    \/ Idle /\ AddQuestionAdmin(1, NOSOURCE, "t0")
    \/ Idle /\ \E c \in NodeIds, q \in QuestionBankIds : AddMap(c, q)
    \/ Idle /\ Materialize
    \/ Return

SpecBank == InitBank /\ [][NextBank]_vars

(* ----------------------- iam: role assignments and scope access --------- *)
\* UserRole.SCOPE_TYPE_CHOICES
SCOPE_TYPE_CHOICES == {"global", "organization", "business_unit"}

\* the ids organizations and business units go by (scope_id is a bare UUID
\* column, not a foreign key: any id can be entered under any scope type)
MaxScopeIds == 2

ScopeIds == 1..MaxScopeIds

\* AppUser rows; request.user of a request without credentials is AnonymousUser
Users == {"u1", "u2"}

ANONYMOUS == "anonymous"

\* `not user or not user.is_authenticated`: AppUser.is_authenticated is always
\* True, AnonymousUser.is_authenticated always False
is_authenticated(user) == user \in Users

\* user.user_roles (related_name of UserRole.user)
user_roles(table, user) == {r \in table : r.user = user}

\* a clean() that lets a global assignment keep a scope_id
UserRole_clean_NoGlobalCheck(self) ==
    IF self.scope_type # "global" /\ self.scope_id = NULL
    THEN "ValidationError: scope_id is required"
    ELSE OK

\* UserRole.clean (None is falsy, every UUID is truthy)
UserRole_clean(self) ==
    IF self.scope_type # "global" /\ self.scope_id = NULL
    THEN "ValidationError: scope_id is required"
    ELSE IF self.scope_type = "global" /\ self.scope_id # NULL
    THEN "ValidationError: scope_id must be null"
    ELSE OK

\* a has_scope_access without the global override
has_scope_access_NoGlobal(table, user, scope_type, scope_id) ==
    IF user = NOUSER \/ ~is_authenticated(user) THEN FALSE
    ELSE \E r \in user_roles(table, user) :
            r.scope_type = scope_type /\ r.scope_id = scope_id

\* a has_scope_access that matches the id and forgets the scope type
has_scope_access_AnyType(table, user, scope_type, scope_id) ==
    IF user = NOUSER \/ ~is_authenticated(user) THEN FALSE
    ELSE IF \E r \in user_roles(table, user) : r.scope_type = "global" THEN TRUE
    ELSE \E r \in user_roles(table, user) : r.scope_id = scope_id

\* has_scope_access(user, scope_type, scope_id)
has_scope_access(table, user, scope_type, scope_id) ==
    IF user = NOUSER \/ ~is_authenticated(user) THEN FALSE
    ELSE IF \E r \in user_roles(table, user) : r.scope_type = "global" THEN TRUE
    ELSE \E r \in user_roles(table, user) :
            r.scope_type = scope_type /\ r.scope_id = scope_id

\* the column names a collection can be filtered on, with the outcome of
\* `'business_unit' in scope_field` for each
ScopeFieldNames ==
    [organization_id |-> FALSE, business_unit_id |-> TRUE, owner_org_id |-> FALSE]

ScopeFields == DOMAIN ScopeFieldNames

\* the collection being filtered: one row for every combination of values
\* its scope columns can hold (a nullable column holds NULL)
Collection == [ScopeFields -> ScopeIds \cup {NULL}]

\* values_list('scope_id', flat=True) of the user's roles of one scope type
scope_ids(table, user, scope_type) ==
    {r.scope_id : r \in {x \in user_roles(table, user) : x.scope_type = scope_type}}

\* a filter_by_user_scope that never looks at business-unit roles
filter_by_user_scope_OrgOnly(queryset, table, user, scope_field) ==
    IF user = NOUSER \/ ~is_authenticated(user) THEN {}
    ELSE IF \E r \in user_roles(table, user) : r.scope_type = "global" THEN queryset
    ELSE {row \in queryset :
            row[scope_field] \in scope_ids(table, user, "organization") \ {NULL}}

\* filter_by_user_scope(queryset, user, scope_field): Q(field__in=org_scopes),
\* OR'd with Q(field__in=bu_scopes) when the field name contains
\* 'business_unit'; an empty Q() gives queryset.none(); IN never matches NULL
filter_by_user_scope(queryset, table, user, scope_field) ==
    IF user = NOUSER \/ ~is_authenticated(user) THEN {}
    ELSE IF \E r \in user_roles(table, user) : r.scope_type = "global" THEN queryset
    ELSE LET org_scopes == scope_ids(table, user, "organization")
             bu_scopes  == scope_ids(table, user, "business_unit")
             accepted   == (IF org_scopes # {} THEN org_scopes ELSE {})
                             \cup (IF bu_scopes # {} /\ ScopeFieldNames[scope_field]
                                   THEN bu_scopes ELSE {})
         IN  {row \in queryset : row[scope_field] \in accepted \ {NULL}}

\* UserRoleAdmin add: the ModelForm runs full_clean() (choices, then clean)
\* and saves the row if nothing was raised
AssignRoleAdmin(u, t, i) ==
    /\ u \in Users
    /\ t \in SCOPE_TYPE_CHOICES
    /\ LET self == [user |-> u, scope_type |-> t, scope_id |-> i]
           res  == UserRole_clean(self)
       IN  /\ user_role' = IF res = OK THEN user_role \cup {self} ELSE user_role
           /\ lastRole' = [NoRoleOp EXCEPT !.op = "assign_admin", !.user = u,
                              !.scope_type = t, !.scope_id = i, !.outcome = res]
    /\ UNCHANGED <<catVars, asmVars, matVars, lastCall, concVars, bankVars, respVars,
                   findVars>>

\* AppUserViewSet.assign_role: UserRole.objects.get_or_create(user=user,
\* role=role). The row it would create has no tenant (a NOT NULL column), so
\* the insert fails; with several rows for the pair get() itself fails.
\* (One Role is modelled: the user's rows are the rows of the pair.)
AssignRoleRest(u) ==
    /\ u \in Users
    /\ LET n == Cardinality(user_roles(user_role, u))
       IN  lastRole' = [NoRoleOp EXCEPT !.op = "assign_role", !.user = u,
                          !.outcome = IF n = 1 THEN OK
                                      ELSE IF n = 0 THEN "IntegrityError"
                                      ELSE "MultipleObjectsReturned"]
    /\ UNCHANGED <<catVars, asmVars, matVars, lastCall, concVars, bankVars, user_role,
                   respVars, findVars>>

\* AppUserViewSet.remove_role: UserRole.objects.filter(user=user, role=role).delete()
RemoveRoleRest(u) ==
    /\ u \in Users
    /\ user_role' = user_role \ user_roles(user_role, u)
    /\ UNCHANGED <<catVars, asmVars, matVars, lastCall, concVars, bankVars, lastRole,
                   respVars, findVars>>

\* a call of has_scope_access(user, scope_type, scope_id)
CheckScopeAccess(u, t, i) ==
    /\ lastRole' = [NoRoleOp EXCEPT !.op = "has_scope_access", !.user = u,
                       !.scope_type = t, !.scope_id = i,
                       !.granted = has_scope_access(user_role, u, t, i)]
    /\ UNCHANGED <<catVars, asmVars, matVars, lastCall, concVars, bankVars, user_role,
                   respVars, findVars>>

\* a call of filter_by_user_scope(Collection, user, scope_field)
FilterByUserScope(u, f) ==
    /\ lastRole' = [NoRoleOp EXCEPT !.op = "filter_by_user_scope", !.user = u,
                       !.scope_field = f,
                       !.rows = filter_by_user_scope(Collection, user_role, u, f)]
    /\ UNCHANGED <<catVars, asmVars, matVars, lastCall, concVars, bankVars, user_role,
                   respVars, findVars>>

InitIam ==
    /\ control_node = {}
    /\ lastOp = NoOp
    /\ EmptyAssessmentData
    /\ EmptyOtherData

NextIam ==
    \/ Idle /\ \E u \in Users, t \in SCOPE_TYPE_CHOICES, i \in ScopeIds \cup {NULL} :
                  AssignRoleAdmin(u, t, i)
    \/ Idle /\ \E u \in Users : AssignRoleRest(u)
    \/ Idle /\ \E u \in Users : RemoveRoleRest(u)
    \/ Idle /\ \E u \in Users \cup {ANONYMOUS, NOUSER},
                    t \in SCOPE_TYPE_CHOICES \cup {"department"}, i \in ScopeIds \cup {NULL} :
                  CheckScopeAccess(u, t, i)
    \/ Idle /\ \E u \in Users \cup {ANONYMOUS, NOUSER}, f \in ScopeFields :
                  FilterByUserScope(u, f)
    \/ Return

SpecIam == InitIam /\ [][NextIam]_vars

(* ----------------------- responses -------------------------------------- *)
\* Response.STATUS_CHOICES
RESPONSE_STATUS_CHOICES == {"draft", "submitted", "under_review", "approved", "rejected"}

\* the scale types a question can carry (NUMERIC is scored like TEXT: not at all)
SCALE_TYPES == {"LIKERT_1_5", "YES_NO", "TEXT"}

\* answer_payload is modelled by its selected_option: absent (Null) or <<v>>
\* with v a JSON number or a JSON string a responder can send
MaxOption == 6

\* a JSON number
NumberOption(n) == [is_number |-> TRUE, number |-> n, text |-> ""]

\* a JSON string
TextOption(s) == [is_number |-> FALSE, number |-> 0, text |-> s]

\* the strings studied: the option_value of the Yes and No options
\* (create_yes_no_options) and of a Likert option (create_default_likert_options)
OptionTexts == {"yes", "no", "3"}

OptionValues ==
    {NumberOption(n) : n \in 0..MaxOption} \cup {TextOption(s) : s \in OptionTexts}

Payloads == {Null} \cup {<<v>> : v \in OptionValues}

\* the values timezone.now() can return
MaxTime == 2

Times == 1..MaxTime

\* the strings float() reads as a number, with their value
DecimalTexts == ("1" :> 1) @@ ("2" :> 2) @@ ("3" :> 3) @@ ("4" :> 4) @@ ("5" :> 5)

\* bool(v): a number other than 0, a string other than ''
Truthy(v) == IF v.is_number THEN v.number # 0 ELSE v.text # ""

\* float(v): [error, value] (float(n) is written n)
float(v) ==
    IF v.is_number THEN [error |-> OK, value |-> v.number]
    ELSE IF v.text \in DOMAIN DecimalTexts
         THEN [error |-> OK, value |-> DecimalTexts[v.text]]
         ELSE [error |-> "ValueError", value |-> 0]

\* selected == 1
EqualsOne(v) == v.is_number /\ v.number = 1

\* Response.calculate_maturity_score: [error, row as stored afterwards]; an
\* exception leaves before self.save()
calculate_maturity_score(self) ==
    LET selected == self.answer_payload
    IN  IF self.scale_type = "LIKERT_1_5"
        THEN IF selected # Null /\ Truthy(selected[1])
             THEN LET f == float(selected[1])
                  IN  IF f.error # OK THEN [error |-> f.error, row |-> self]
                      ELSE [error |-> OK, row |-> [self EXCEPT !.maturity_score = <<f.value>>]]
             ELSE [error |-> OK, row |-> self]
        ELSE IF self.scale_type = "YES_NO"
        THEN [error |-> OK,
              row |-> [self EXCEPT !.maturity_score =
                         IF selected # Null /\ EqualsOne(selected[1])
                         THEN <<5>> ELSE <<1>>]]
        ELSE [error |-> OK, row |-> self]

\* a submit() without the status guard
submit_NoGuard(self, now) ==
    calculate_maturity_score([self EXCEPT !.status = "submitted", !.submitted_at = <<now>>])

\* Response.submit: [error, row as stored afterwards]; the status is saved
\* before the score is computed, outside any transaction
submit(self, now) ==
    IF self.status # "draft"
    THEN [error |-> "ValidationError: Can only submit draft responses", row |-> self]
    ELSE calculate_maturity_score(
             [self EXCEPT !.status = "submitted", !.submitted_at = <<now>>])

\* ResponseViewSet.submit: response.submit(), any exception answered with 400
Submit(now) ==
    /\ LET r == submit(response_row, now)
       IN  /\ response_row' = r.row
           /\ lastResp' = [op |-> "submit", outcome |-> r.error]
    /\ UNCHANGED <<catVars, asmVars, matVars, lastCall, concVars, bankVars, iamVars,
                   findVars>>

\* ResponseViewSet.approve: Response.approve sets the status whatever it was
Approve ==
    /\ response_row' = [response_row EXCEPT !.status = "approved"]
    /\ lastResp' = [op |-> "approve", outcome |-> OK]
    /\ UNCHANGED <<catVars, asmVars, matVars, lastCall, concVars, bankVars, iamVars,
                   findVars>>

\* ResponseViewSet.reject: Response.reject sets the status whatever it was
Reject ==
    /\ response_row' = [response_row EXCEPT !.status = "rejected"]
    /\ lastResp' = [op |-> "reject", outcome |-> OK]
    /\ UNCHANGED <<catVars, asmVars, matVars, lastCall, concVars, bankVars, iamVars,
                   findVars>>

\* ResponseViewSet update through ResponseSerializer: status and
\* answer_payload are writable, maturity_score and submitted_at read-only
UpdateResponseRest(st, payload) ==
    /\ response_row' = [response_row EXCEPT !.status = st, !.answer_payload = payload]
    /\ lastResp' = [op |-> "update", outcome |-> OK]
    /\ UNCHANGED <<catVars, asmVars, matVars, lastCall, concVars, bankVars, iamVars,
                   findVars>>

\* a response as ResponseViewSet create stores it, on a question of any scale
InitResp ==
    /\ control_node = {}
    /\ lastOp = NoOp
    /\ EmptyAssessmentData
    /\ EmptyConc /\ StockBank /\ EmptyIam /\ EmptyFind
    /\ \E scale \in SCALE_TYPES, payload \in Payloads :
          response_row = NewResponse(scale, payload)
    /\ lastResp = NoRespOp

NextResp ==
    \/ Idle /\ \E now \in Times : Submit(now)
    \/ Idle /\ Approve
    \/ Idle /\ Reject
    \/ Idle /\ \E st \in RESPONSE_STATUS_CHOICES, payload \in Payloads :
                  UpdateResponseRest(st, payload)
    \/ Return

SpecResp == InitResp /\ [][NextResp]_vars

(* ----------------------- findings --------------------------------------- *)
\* tenant ids: the leading characters of tenant.id.hex (lower-case hex digits)
TenantA == <<"a", "b", "c", "d", "e", "f", "1", "2">>

TenantB == <<"0", "a", "1", "b", "2", "c", "3", "d">>

TenantIds == {TenantA, TenantB}

\* str.upper() on a hex digit
Upper(ch) ==
    IF ch = "a" THEN "A" ELSE IF ch = "b" THEN "B" ELSE IF ch = "c" THEN "C"
    ELSE IF ch = "d" THEN "D" ELSE IF ch = "e" THEN "E" ELSE IF ch = "f" THEN "F"
    ELSE ch

DigitChars == <<"0", "1", "2", "3", "4", "5", "6", "7", "8", "9">>

\* str(n): the decimal digits of n >= 0, most significant first
RECURSIVE Decimal(_)
Decimal(n) ==
    IF n < 10 THEN <<DigitChars[n + 1]>>
    ELSE Decimal(n \div 10) \o <<DigitChars[(n % 10) + 1]>>

\* format(n, '0<width>d'): zeros on the left up to the width, never shortened
RECURSIVE ZeroPad(_, _)
ZeroPad(digits, width) ==
    IF Len(digits) >= width THEN digits ELSE ZeroPad(<<"0">> \o digits, width)

\* a numbering that forgets the + 1
generate_finding_number_FromCount(tenant, count) ==
    <<"F", "N", "D", "-">> \o [i \in 1..6 |-> Upper(tenant[i])] \o <<"-">>
        \o ZeroPad(Decimal(count), 4)

\* f"FND-{self.tenant.id.hex[:6].upper()}-{count + 1:04d}"
generate_finding_number(tenant, count) ==
    <<"F", "N", "D", "-">> \o [i \in 1..6 |-> Upper(tenant[i])] \o <<"-">>
        \o ZeroPad(Decimal(count + 1), 4)

\* number of Finding rows that may be stored
MaxFindings == 4

\* a finding_number handed to save() by the caller
ExplicitNumbers == {<<"F", "-", "2", "0", "2", "6", "-", "0", "0", "0", "1">>}

\* Finding.objects.filter(tenant=tenant).count()
TenantCount(table, tenant) ==
    BagCardinality([r \in {x \in BagToSet(table) : x.tenant = tenant} |-> table[r]])

\* the other worker
Other(p) == CHOOSE q \in Procs : q # p

\* Finding.save() up to super().save(): with no finding_number the findings
\* of the tenant are counted and the number is built; `overlap` notes that
\* the other worker has counted for the same tenant and not yet written
StartSave(p, tenant, given, asmt) ==
    /\ creators[p].pc = "idle"
    /\ asmt \in assessments \cup {NOASSESSMENT}
    /\ LET count == TenantCount(finding, tenant)
           o     == creators[Other(p)]
       IN  creators' = [creators EXCEPT ![p] =
              [pc |-> "counted", tenant |-> tenant, given |-> given, assessment |-> asmt,
               count |-> IF given = <<>> THEN count ELSE 0,
               finding_number |-> IF given = <<>>
                                  THEN generate_finding_number(tenant, count)
                                  ELSE given,
               overlap |-> /\ given = <<>>
                           /\ o.pc = "counted" /\ o.given = <<>> /\ o.tenant = tenant,
               outcome |-> "none"]]
    /\ UNCHANGED <<catVars, asmVars, matVars, lastCall, concVars, bankVars, iamVars,
                   respVars, finding, assessments>>

\* an INSERT that ignores the unique index on finding_number
InsertFinding_NoUnique(p) ==
    /\ creators[p].pc = "counted"
    /\ BagCardinality(finding) < MaxFindings
    /\ LET c == creators[p]
       IN  /\ finding' = finding (+) SetToBag(
                  {[tenant |-> c.tenant, finding_number |-> c.finding_number,
                    assessment |-> c.assessment]})
           /\ creators' = [creators EXCEPT ![p] = [@ EXCEPT !.pc = "done", !.outcome = OK]]
    /\ UNCHANGED <<catVars, asmVars, matVars, lastCall, concVars, bankVars, iamVars,
                   respVars, assessments>>

\* super().save(): the INSERT; finding_number is unique=True, nothing retries
InsertFinding(p) ==
    /\ creators[p].pc = "counted"
    /\ BagCardinality(finding) < MaxFindings
    /\ LET c == creators[p]
       IN  IF \E f \in BagToSet(finding) : f.finding_number = c.finding_number
           THEN /\ finding' = finding
                /\ creators' = [creators EXCEPT ![p] =
                       [@ EXCEPT !.pc = "done", !.outcome = "IntegrityError"]]
           ELSE /\ finding' = finding (+) SetToBag(
                       {[tenant |-> c.tenant, finding_number |-> c.finding_number,
                         assessment |-> c.assessment]})
                /\ creators' = [creators EXCEPT ![p] =
                       [@ EXCEPT !.pc = "done", !.outcome = OK]]
    /\ UNCHANGED <<catVars, asmVars, matVars, lastCall, concVars, bankVars, iamVars,
                   respVars, assessments>>

\* save() has returned or raised: the worker is free again
FinishSave(p) ==
    /\ creators[p].pc = "done"
    /\ creators' = [creators EXCEPT ![p] = IdleCreator]
    /\ UNCHANGED <<catVars, asmVars, matVars, lastCall, concVars, bankVars, iamVars,
                   respVars, finding, assessments>>

\* Finding.delete()
DeleteFinding(f) ==
    /\ f \in BagToSet(finding)
    /\ finding' = finding (-) SetToBag({f})
    /\ UNCHANGED <<catVars, asmVars, matVars, lastCall, concVars, bankVars, iamVars,
                   respVars, creators, assessments>>

InitFind ==
    /\ control_node = {}
    /\ lastOp = NoOp
    /\ EmptyAssessmentData
    /\ EmptyOtherData

\* one worker at a time: creations and deletions of two tenants in sequence
NextFind ==
    \/ \E tenant \in TenantIds, given \in {<<>>} \cup ExplicitNumbers :
          StartSave("w1", tenant, given, NOASSESSMENT)
    \/ InsertFinding("w1")
    \/ FinishSave("w1")
    \/ \E f \in BagToSet(finding) : DeleteFinding(f)

SpecFind == InitFind /\ [][NextFind]_vars

\* two workers creating findings of one tenant side by side; findings are
\* deleted only while no creation is under way
NextRace ==
    \/ \E p \in Procs : StartSave(p, TenantA, <<>>, NOASSESSMENT)
    \/ \E p \in Procs : InsertFinding(p)
    \/ \E p \in Procs : FinishSave(p)
    \/ /\ \A p \in Procs : creators[p].pc = "idle"
       /\ \E f \in BagToSet(finding) : DeleteFinding(f)

SpecRace == InitFind /\ [][NextRace]_vars

(* ----------------------- deleting an assessment -------------------------- *)
\* the Assessment rows that may exist
AssessmentIds == {"a1", "a2"}

\* the rows of a table that do not point to the deleted assessment
\* (on_delete=models.CASCADE)
CascadeFindings(table, a) ==
    [r \in {x \in BagToSet(table) : x.assessment # a} |-> table[r]]

\* AssessmentViewSet create
CreateAssessment(a) ==
    /\ a \notin assessments
    /\ assessments' = assessments \cup {a}
    /\ UNCHANGED <<catVars, asmVars, matVars, lastCall, concVars, bankVars, iamVars,
                   respVars, finding, creators>>

\* AssessmentViewSet destroy: Assessment.delete() collects the rows whose
\* foreign key to the assessment is on_delete=CASCADE: AssessmentScope,
\* AssessmentQuestion, Response and Finding alike
DeleteAssessment(a) ==
    /\ a \in assessments
    /\ assessments' = assessments \ {a}
    /\ IF a = "a1"
       THEN /\ assessment_scope' = {}
            /\ assessment_question' = {}
            /\ response' = {}
       ELSE UNCHANGED <<assessment_scope, assessment_question, response>>
    /\ finding' = CascadeFindings(finding, a)
    /\ UNCHANGED <<catVars, assessment, control_question_map, next_pk, lastCall,
                   concVars, bankVars, iamVars, respVars, creators>>

InitDel ==
    /\ control_node = Catalog(ChainParent, [i \in NodeIds |-> "active"],
                              [i \in NodeIds |-> "v1"])
    /\ lastOp = NoOp
    /\ EmptyAssessmentData
    /\ EmptyOtherData

\* the assessment under study gets scope rows, questions and responses while it
\* exists; findings are recorded against either assessment or none; an
\* assessment is deleted while no Finding.save() is under way
NextDel ==
    \/ "a1" \in assessments /\ AddScope(1, TRUE)
    \/ "a1" \in assessments /\ AddQuestionAdmin(1, NOSOURCE, "t0")
    \/ "a1" \in assessments /\ \E q \in Ids(assessment_question) : AddResponse(q)
    \/ \E asmt \in AssessmentIds \cup {NOASSESSMENT} :
          StartSave("w1", TenantA, <<>>, asmt)
    \/ InsertFinding("w1")
    \/ FinishSave("w1")
    \/ \E a \in AssessmentIds : CreateAssessment(a)
    \/ /\ creators["w1"].pc = "idle"
       /\ \E a \in AssessmentIds : DeleteAssessment(a)

SpecDel == InitDel /\ [][NextDel]_vars

(* ======================= claims on the control catalog ================== *)
Writes == {"create", "update"}

IsValidationError(outcome) == outcome \in {CIRCULAR, BADTYPE}

\* the node_type of the parent the last write named, as stored before the write
ParentType(table, op) == Row(table, op.parent).node_type

\* the table of section 3 of the specification, as (node_type, parent type) pairs
AllowedPairs ==
    {<<"sub_domain", "domain">>, <<"control", "domain">>,
     <<"control", "sub_domain">>, <<"sub_control", "control">>}

C4_DomainIsRootOnly ==
    ( /\ lastOp.op \in Writes
      /\ lastOp.node_type = "domain"
      /\ lastOp.parent # NULL )
    => IsValidationError(lastOp.outcome)

(* ======================= claims on scope resolution ===================== *)
\* the ids of the stored descendants of a node, read off the parent column
DescendantIds(table, id) ==
    {r.id : r \in {n \in table : n.id # id /\ id \in ChainFrom(table, n.id, {})}}

\* C5: for an assessment with zero AssessmentScope rows, resolve_scope
\* returns exactly the nodes of the assessment's standard version whose
\* status is active, whatever their node_type.
C5_DefaultScope ==
    ( lastCall.fn = "resolve_scope" /\ assessment_scope = {} )
    => ( /\ lastCall.outcome = "success"
         /\ \A r \in control_node :
               r.id \in lastCall.controls
                 <=> ( /\ r.standard_version = assessment.standard_version
                       /\ r.status = "active" )
         /\ lastCall.controls \subseteq Ids(control_node) )

\* C5 witness: the default branch returned a node and left out a deprecated
\* node, a draft node and an active node of another version
C5_Witness ==
    /\ lastCall.fn = "resolve_scope"
    /\ assessment_scope = {}
    /\ lastCall.controls # {}
    /\ \E r \in control_node :
          r.standard_version = assessment.standard_version /\ r.status # "active"
    /\ \E r \in control_node :
          r.standard_version # assessment.standard_version /\ r.status = "active"

\* C6: with the single scope row (control=Root, include_children=true),
\* resolve_scope returns Root and every active node of Root's descendant
\* subtree, and no inactive descendant.
C6_ScopeWithChildren ==
    ( /\ lastCall.fn = "resolve_scope"
      /\ Cardinality(assessment_scope) = 1
      /\ \A s \in assessment_scope :
            s.include_children /\ Row(control_node, s.control_node).status = "active" )
    => ( /\ lastCall.outcome = "success"
         /\ \A s \in assessment_scope :
               lastCall.controls =
                   {s.control_node} \cup
                   {d \in DescendantIds(control_node, s.control_node) :
                       Row(control_node, d).status = "active"} )

(* ======================= claims on materialization ====================== *)
\* what resolve_scope gives for the assessment in the current state
ScopeNow == get_scoped_controls(control_node, assessment, assessment_scope)

\* the stored mappings of a set of controls (ControlQuestionMap has no
\* is_active column: every stored mapping counts as active)
MappingsOf(controls) == {m \in control_question_map : m.control_node \in controls}

ControlsWithQuestions(controls) == {c \in controls : MappingsOf({c}) # {}}

\* C7: if resolve_scope returns N controls, M of them with at least one
\* mapping and Q mappings in total, one materialize call creates exactly Q
\* AssessmentQuestion rows, one per mapping of an in-scope control, and
\* returns questions_created = Q, controls_in_scope = N and
\* controls_with_questions = M.
C7_MaterializeCounts ==
    [][ ( lastCall'.fn = "materialize" /\ ScopeNow.error = "none" )
        => LET controls == ScopeNow.controls
               created  == assessment_question' \ assessment_question
           IN  /\ lastCall'.outcome = "success"
               /\ lastCall'.questions_created = Cardinality(MappingsOf(controls))
               /\ lastCall'.controls_in_scope = Cardinality(controls)
               /\ lastCall'.controls_with_questions
                     = Cardinality(ControlsWithQuestions(controls))
               /\ assessment_question \subseteq assessment_question'
               /\ Cardinality(created) = Cardinality(MappingsOf(controls))
               /\ \A row \in created :
                     [control_node |-> row.control_node,
                      question_bank |-> row.source_question] \in MappingsOf(controls) ]_vars

\* C9: for an assessment holding K >= 1 AssessmentQuestion rows, some with
\* a Response attached, rematerialize returns questions_deleted = K, and afterwards none of the
\* original rows and none of their responses is stored.
C9_RematerializeReplaces ==
    [][ ( lastCall'.fn = "rematerialize" /\ assessment_question # {} /\ response # {} )
        => ( /\ lastCall'.outcome = "success"
             /\ lastCall'.questions_deleted = Cardinality(assessment_question)
             /\ Ids(assessment_question') \cap Ids(assessment_question) = {}
             /\ \A r \in response' :
                   r.assessment_question \notin Ids(assessment_question) ) ]_vars

\* C10: plain materialize is never rejected and adds its Q rows on every
\* call: a call on an assessment that already holds j*Q rows leaves it with
\* (j+1)*Q rows, so k consecutive calls leave k*Q rows. Stated as the step
\* every single call has to make, for an assessment whose scope holds at
\* least one mapped control (Q >= 1).
C10_MaterializeDuplicates ==
    [][ ( /\ lastCall'.fn = "materialize"
          /\ \E m \in control_question_map :
                Row(control_node, m.control_node).status = "active"
                /\ ( assessment_scope = {}
                     \/ \E sc \in assessment_scope : sc.control_node = m.control_node ) )
        => ( /\ lastCall'.outcome = "success"
             /\ ScopeNow.error = "none"
             /\ Cardinality(assessment_question')
                  = Cardinality(assessment_question)
                      + Cardinality(MappingsOf(ScopeNow.controls)) ) ]_vars

(* ======================= claims on concurrent requests ================== *)
\* C11: two generate_questions calls running concurrently on the same
\* assessment (one whose scope resolves), under any interleaving, both
\* complete their materialize call successfully and each inserts its own
\* full set of Q rows: once both are done, both outcomes are success and the
\* assessment holds 2 * Q rows.
C11_ConcurrentBothInsert ==
    ( /\ \A p \in Procs : calls[p].pc = "done"
      /\ ScopeNow.error = "none" )
    => ( /\ \A p \in Procs : calls[p].outcome = "success"
         /\ Cardinality(assessment_question)
               = 2 * Cardinality(MappingsOf(ScopeNow.controls)) )

(* ======================= claims on the question library ================= *)
\* C12: an edit or a delete of a QuestionBank question leaves every stored
\* AssessmentQuestion in place with its snapshot fields unchanged; a delete
\* only sets the source back-reference of the rows copied from the deleted
\* question to null.
C12_SnapshotsUnaffected ==
    [][ question_bank' # question_bank
        => /\ Ids(assessment_question') = Ids(assessment_question)
           /\ Cardinality(assessment_question') = Cardinality(assessment_question)
           /\ \A r \in assessment_question :
                 LET after == Row(assessment_question', r.id)
                 IN  /\ after.question_text = r.question_text
                     /\ after.control_node = r.control_node
                     /\ after.source_question =
                           IF r.source_question \in Ids(question_bank') \cup {NOSOURCE}
                           THEN r.source_question ELSE NOSOURCE ]_vars

\* C12 witness: one stored question still worded as before its source was
\* reworded, and one still stored, in the second wording, after its source
\* was deleted (hand-entered rows without a source carry the first wording)
C12_Witness ==
    /\ \E r \in assessment_question :
          /\ r.source_question # NOSOURCE
          /\ QuestionText(r.source_question) # r.question_text
    /\ \E r \in assessment_question :
          /\ r.source_question = NOSOURCE
          /\ r.question_text = "t1"

(* ======================= claims on scope access ========================= *)
HoldsGlobal(u) == \E r \in user_roles(user_role, u) : r.scope_type = "global"

\* C13: an authenticated user who holds at least one global UserRole gets
\* has_scope_access(user, scope_type, scope_id) = true for every scope type
\* and every scope id, whatever other roles the user holds.
C13_GlobalOverride ==
    ( /\ lastRole.op = "has_scope_access"
      /\ lastRole.user \in Users
      /\ HoldsGlobal(lastRole.user) )
    => lastRole.granted

\* C13 witness: a user with a global and a business-unit role was granted an
\* organization scope no role of the user names
C13_Witness ==
    /\ lastRole.op = "has_scope_access"
    /\ lastRole.user \in Users
    /\ HoldsGlobal(lastRole.user)
    /\ \E r \in user_roles(user_role, lastRole.user) : r.scope_type = "business_unit"
    /\ lastRole.scope_type = "organization"
    /\ lastRole.scope_id # NULL
    /\ \A r \in user_roles(user_role, lastRole.user) : r.scope_id # lastRole.scope_id
    /\ lastRole.granted

\* C14: for a user without a global UserRole, has_scope_access(user, T, I) is
\* true if and only if the user holds a UserRole with exactly scope_type T
\* and scope_id I (a business-unit role never grants an organization scope).
C14_ExactScopeMatch ==
    ( /\ lastRole.op = "has_scope_access"
      /\ lastRole.user \in Users
      /\ ~HoldsGlobal(lastRole.user) )
    => ( lastRole.granted
           <=> [user |-> lastRole.user, scope_type |-> lastRole.scope_type,
                scope_id |-> lastRole.scope_id] \in user_role )

\* C14 witness: a user whose only roles are business-unit roles was denied
\* the organization scope of an id the user holds as a business unit
C14_Witness ==
    /\ lastRole.op = "has_scope_access"
    /\ lastRole.user \in Users
    /\ user_roles(user_role, lastRole.user) # {}
    /\ \A r \in user_roles(user_role, lastRole.user) : r.scope_type = "business_unit"
    /\ \E r \in user_roles(user_role, lastRole.user) : r.scope_id = lastRole.scope_id
    /\ lastRole.scope_type = "organization"
    /\ ~lastRole.granted

\* C15 as stated: for a user without a global role, filter_by_user_scope
\* returns exactly the rows whose scope_field value is in the union of the
\* organization-scoped and the business-unit-scoped ids the user holds, for
\* any scope_field (nothing when the user holds no such role).
C15_Original ==
    ( /\ lastRole.op = "filter_by_user_scope"
      /\ lastRole.user \in Users
      /\ ~HoldsGlobal(lastRole.user) )
    => lastRole.rows =
         {row \in Collection :
             row[lastRole.scope_field] \in
                 scope_ids(user_role, lastRole.user, "organization")
                   \cup scope_ids(user_role, lastRole.user, "business_unit")}

\* C15 amended: the rows returned are those whose scope_field value is an
\* organization-scoped id of the user or, only when the name of scope_field
\* contains 'business_unit', a business-unit-scoped id of the user; nothing
\* when the user holds no non-global role.
C15_FilterByFieldKind ==
    ( /\ lastRole.op = "filter_by_user_scope"
      /\ lastRole.user \in Users
      /\ ~HoldsGlobal(lastRole.user) )
    => /\ lastRole.rows =
            {row \in Collection :
                \/ row[lastRole.scope_field] \in
                      scope_ids(user_role, lastRole.user, "organization")
                \/ /\ lastRole.scope_field = "business_unit_id"
                   /\ row[lastRole.scope_field] \in
                         scope_ids(user_role, lastRole.user, "business_unit")}
       /\ user_roles(user_role, lastRole.user) = {} => lastRole.rows = {}

\* C15 witness: a user holding an organization id and another id as a
\* business unit filtered on organization_id: rows of the first id came
\* back, rows of the second did not
C15_Witness ==
    /\ lastRole.op = "filter_by_user_scope"
    /\ lastRole.user \in Users
    /\ ~HoldsGlobal(lastRole.user)
    /\ lastRole.scope_field = "organization_id"
    /\ \E o \in scope_ids(user_role, lastRole.user, "organization"),
          b \in scope_ids(user_role, lastRole.user, "business_unit") :
          /\ o # b
          /\ b \notin scope_ids(user_role, lastRole.user, "organization")
          /\ \E row \in lastRole.rows : row.organization_id = o
          /\ \A row \in lastRole.rows : row.organization_id # b

(* ======================= claims on responses ============================ *)
\* C16: Response.submit() succeeds only when the status is draft; called in
\* any other status it raises ValidationError and leaves status,
\* submitted_at and maturity_score unchanged.
C16_SubmitOnlyFromDraft ==
    [][ lastResp'.op = "submit"
        => IF response_row.status = "draft"
           THEN response_row'.status = "submitted"
           ELSE /\ lastResp'.outcome = "ValidationError: Can only submit draft responses"
                /\ response_row'.status = response_row.status
                /\ response_row'.submitted_at = response_row.submitted_at
                /\ response_row'.maturity_score = response_row.maturity_score ]_vars

\* C16 witness: submit() was refused on an approved response that had been
\* submitted and scored before
C16_Witness ==
    /\ lastResp.op = "submit"
    /\ lastResp.outcome # OK
    /\ response_row.status = "approved"
    /\ response_row.submitted_at # Null
    /\ response_row.maturity_score # Null

(* ======================= claims on findings ============================= *)
\* the upper-case form of each hex digit
HexUpper ==
    [ch \in {"0", "1", "2", "3", "4", "5", "6", "7", "8", "9"} |-> ch] @@
    ("a" :> "A") @@ ("b" :> "B") @@ ("c" :> "C") @@ ("d" :> "D") @@
    ("e" :> "E") @@ ("f" :> "F")

\* the value of a decimal digit character
DigitValue(ch) == CHOOSE d \in 0..9 : DigitChars[d + 1] = ch

\* n reads FND-<first six hex characters of the tenant id, upper case>-<c + 1 on
\* four digits>
IsAutoNumber(n, tenant, c) ==
    /\ Len(n) = 15
    /\ SubSeq(n, 1, 4) = <<"F", "N", "D", "-">>
    /\ \A i \in 1..6 : n[4 + i] = HexUpper[tenant[i]]
    /\ n[11] = "-"
    /\ \A i \in 12..15 : \E d \in 1..10 : DigitChars[d] = n[i]
    /\ 1000 * DigitValue(n[12]) + 100 * DigitValue(n[13])
          + 10 * DigitValue(n[14]) + DigitValue(n[15]) = c + 1

\* C17: a Finding saved with no finding_number gets FND-<first 6 hex characters
\* of the tenant id, upper case>-<c + 1 on 4 digits>, c being the number of
\* Findings of its tenant stored when save() counts them; a Finding saved with a
\* finding_number keeps it; the number save() settled on is the one stored.
C17_NumberFormat ==
    [][\A p \in Procs :
         /\ (creators[p].pc = "idle" /\ creators'[p].pc = "counted") =>
               LET c == creators'[p]
               IN  IF c.given = <<>>
                   THEN IsAutoNumber(c.finding_number, c.tenant,
                                     TenantCount(finding, c.tenant))
                   ELSE c.finding_number = c.given
         /\ (creators[p].pc = "counted" /\ creators'[p].outcome = OK) =>
               finding' = finding (+) SetToBag(
                   {[tenant |-> creators[p].tenant,
                     finding_number |-> creators[p].finding_number,
                     assessment |-> creators[p].assessment]})
      ]_vars

\* C17 witness: the tenant abcdef12-... holds three findings, one of them saved
\* with its own number, and its next finding has been stored as FND-ABCDEF-0004
C17_Witness ==
    LET c == creators["w1"]
    IN  /\ c.pc = "done" /\ c.outcome = OK
        /\ c.tenant = TenantA /\ c.given = <<>> /\ c.count = 3
        /\ c.finding_number =
              <<"F", "N", "D", "-", "A", "B", "C", "D", "E", "F", "-", "0", "0", "0", "4">>
        /\ \E f \in BagToSet(finding) :
              f.tenant = TenantA /\ f.finding_number = c.finding_number
        /\ \E f \in BagToSet(finding) :
              f.tenant = TenantA /\ f.finding_number \in ExplicitNumbers
        /\ TenantCount(finding, TenantA) = 4

\* C18: when two creations of one tenant have both counted the same number of
\* findings before either wrote, they hold the same finding_number, exactly one
\* of the two inserts succeeds and the other fails; and no two stored findings
\* share a finding_number.
C18_ExactlyOneInsertSucceeds ==
    /\ \A f \in BagToSet(finding) :
          /\ finding[f] = 1
          /\ \A g \in BagToSet(finding) : g.finding_number = f.finding_number => g = f
    /\ LET c == creators["w1"]
           o == creators["w2"]
       IN  (/\ c.pc = "done" /\ o.pc = "done"
            /\ c.given = <<>> /\ o.given = <<>>
            /\ c.tenant = o.tenant /\ c.count = o.count
            /\ (c.overlap \/ o.overlap))
           => /\ c.finding_number = o.finding_number
              /\ Cardinality({q \in Procs : creators[q].outcome = OK}) = 1

\* C19: deleting an Assessment removes its AssessmentScope, AssessmentQuestion
\* and Response rows and keeps every Finding: the findings that referenced it
\* are still stored afterwards, with their assessment reference set to null.
C19_FindingsOutliveAssessment ==
    [][\A a \in assessments :
         a \notin assessments' =>
            /\ a = "a1" => /\ assessment_scope' = {}
                           /\ assessment_question' = {}
                           /\ response' = {}
            /\ BagCardinality(finding') = BagCardinality(finding)
            /\ \A f \in BagToSet(finding) :
                  IF f.assessment = a
                  THEN [f EXCEPT !.assessment = NOASSESSMENT] \in BagToSet(finding')
                  ELSE f \in BagToSet(finding')
      ]_vars

(* ======================= claims on role assignments ===================== *)
\* the two refusals of UserRole validation
RoleValidationErrors ==
    {"ValidationError: scope_id is required", "ValidationError: scope_id must be null"}

\* C20: UserRole validation accepts an assignment exactly when scope_id is null
\* if and only if scope_type is global; a global assignment with a scope_id and
\* a scoped assignment without one are refused with ValidationError; an accepted
\* assignment is stored, and every stored UserRole has a null scope_id exactly
\* when its scope_type is global.
C20_ScopeIdIffGlobal ==
    /\ lastRole.op = "assign_admin" =>
          LET wellFormed == (lastRole.scope_id = NULL) <=> (lastRole.scope_type = "global")
              self == [user |-> lastRole.user, scope_type |-> lastRole.scope_type,
                       scope_id |-> lastRole.scope_id]
          IN  /\ (lastRole.outcome = OK) <=> wellFormed
              /\ ~wellFormed => lastRole.outcome \in RoleValidationErrors
              /\ wellFormed => self \in user_role
    /\ \A r \in user_role : (r.scope_id = NULL) <=> (r.scope_type = "global")

\* C20 witness: a global assignment naming a scope_id has just been refused,
\* while the table holds a global row and an organization row with its scope_id
C20_Witness ==
    /\ lastRole.op = "assign_admin"
    /\ lastRole.scope_type = "global" /\ lastRole.scope_id # NULL
    /\ lastRole.outcome = "ValidationError: scope_id must be null"
    /\ \E r \in user_role : r.scope_type = "global" /\ r.scope_id = NULL
    /\ \E r \in user_role : r.scope_type = "organization" /\ r.scope_id # NULL

(* ======================= claims on explicit scopes ====================== *)
\* the nodes the scope rows admit: the named nodes and, for a row with
\* include_children, the descendants of its node
AdmittedByScopes(table, scopes) ==
    {s.control_node : s \in scopes} \cup
    UNION {DescendantIds(table, s.control_node) : s \in {x \in scopes : x.include_children}}

\* C21: for an assessment with at least one AssessmentScope row, every node
\* resolve_scope returns is active and is named by a scope row or descends from
\* a row with include_children; and when a scope row names a deprecated or
\* draft node the call still succeeds, the node being left out.
C21_ExplicitScopeActiveOnly ==
    ( lastCall.fn = "resolve_scope" /\ assessment_scope # {} )
    => ( /\ \A id \in lastCall.controls :
               /\ id \in Ids(control_node)
               /\ Row(control_node, id).status = "active"
               /\ id \in AdmittedByScopes(control_node, assessment_scope)
         /\ (\E s \in assessment_scope :
                 Row(control_node, s.control_node).status # "active")
               => /\ lastCall.outcome = "success"
                  /\ \A s \in assessment_scope :
                        Row(control_node, s.control_node).status # "active"
                          => s.control_node \notin lastCall.controls )

(* ======================= claims on the response workflow ================ *)
\* the calls of Response methods a request can make
WorkflowCalls == {"submit", "approve", "reject"}

\* C22: under submit, approve and reject calls a Response becomes approved or
\* rejected only from submitted or under_review, never directly from draft,
\* and an approved or rejected Response keeps its status.
C22_StatusWorkflow ==
    [][ (lastResp = NoRespOp /\ lastResp'.op \in WorkflowCalls)
          => /\ ( /\ response_row'.status \in {"approved", "rejected"}
                  /\ response_row'.status # response_row.status )
                  => response_row.status \in {"submitted", "under_review"}
             /\ response_row.status \in {"approved", "rejected"}
                  => response_row'.status = response_row.status
      ]_vars

\* the option values of a LIKERT_1_5 question, sent as numbers or as the
\* option_value strings of create_default_likert_options
LikertValue(v) == IF v.is_number THEN v.number ELSE DecimalTexts[v.text]

IsLikertOption(v) ==
    IF v.is_number THEN v.number \in 1..5 ELSE v.text \in DOMAIN DecimalTexts

\* the option_value of the Yes and of the No option of create_yes_no_options
YesOption == TextOption("yes")

NoOption == TextOption("no")

\* C23: a successful submit sets the maturity score from the answer: on a
\* LIKERT_1_5 question the numeric value of the selected option, on a YES_NO
\* question 5.0 when the selected answer is yes and 1.0 for any other answer
\* (the answers taken are the options of the question, or none).
C23_ScoreFromAnswer ==
    [][ (lastResp = NoRespOp /\ lastResp'.op = "submit" /\ lastResp'.outcome = OK)
          => LET selected == response_row.answer_payload
             IN  /\ ( /\ response_row.scale_type = "LIKERT_1_5"
                      /\ selected # Null /\ IsLikertOption(selected[1]) )
                      => response_row'.maturity_score = <<LikertValue(selected[1])>>
                 /\ ( /\ response_row.scale_type = "YES_NO"
                      /\ selected # Null => selected[1] \in {YesOption, NoOption} )
                      => response_row'.maturity_score =
                            IF selected # Null /\ selected[1] = YesOption
                            THEN <<5>> ELSE <<1>>
      ]_vars

\* C24: every maturity_score scoring stores on a Response lies between 1.0 and
\* 5.0 inclusive, whatever answer_payload was submitted on a LIKERT_1_5 or
\* YES_NO question.
C24_ScoreInRange ==
    ( response_row.scale_type \in {"LIKERT_1_5", "YES_NO"}
      /\ response_row.maturity_score # Null )
    => response_row.maturity_score[1] \in 1..5

(* ======================= claims on scope and version ==================== *)
\* C25: every ControlNode resolve_scope returns belongs to the assessment's own
\* standard_version, with scope rows as well as without.
C25_ScopeWithinVersion ==
    lastCall.fn = "resolve_scope"
    => \A id \in lastCall.controls :
          /\ id \in Ids(control_node)
          /\ Row(control_node, id).standard_version = assessment.standard_version

(* ======================= claims on sequential numbering ================ *)
\* C27: with one creation at a time, whatever findings were created and
\* deleted before for one or several tenants, the number generated for a new
\* Finding differs from every finding_number stored, and its save does not
\* fail on the unique constraint.
C27_SequentialNumbersFresh ==
    LET c == creators["w1"]
    IN  c.given = <<>> =>
          /\ c.pc = "counted" =>
                \A f \in BagToSet(finding) : f.finding_number # c.finding_number
          /\ c.pc = "done" => c.outcome = OK

(* ======================= claims on rematerialize ======================== *)
\* C28: when rematerialize fails after its delete step, the deletion is rolled
\* back with the rest: the assessment holds the AssessmentQuestion rows and the
\* Responses it held before the call.
C28_RematerializeRollsBackDelete ==
    [][ (lastCall'.fn = "rematerialize" /\ lastCall'.outcome # "success")
          => /\ assessment_question' = assessment_question
             /\ response' = response
      ]_vars

\* C28 witness: a rematerialize call has failed on an assessment holding
\* questions, one of them answered, and they are all still stored
C28_Witness ==
    /\ lastCall.fn = "rematerialize"
    /\ lastCall.outcome \notin {"success", "none"}
    /\ Cardinality(assessment_question) >= 2
    /\ \E r \in response : r.assessment_question \in Ids(assessment_question)

(* ======================= claims on the two scope checks ================= *)
\* the scope type whose ids each column of the collection holds
FieldScopeType ==
    [organization_id |-> "organization", business_unit_id |-> "business_unit",
     owner_org_id |-> "organization"]

\* C29: for an authenticated user and a collection filtered on a column
\* holding ids of scope type T, a row is returned by filter_by_user_scope
\* exactly when has_scope_access(user, T, the row's id) is true; an id held
\* only under the other scope type admits no row.
C29_FilterAgreesWithAccess ==
    ( lastRole.op = "filter_by_user_scope" /\ lastRole.user \in Users )
    => \A row \in Collection :
          row \in lastRole.rows
            <=> has_scope_access(user_role, lastRole.user,
                                 FieldScopeType[lastRole.scope_field],
                                 row[lastRole.scope_field])

(* ======================= claims on the generate_questions response ====== *)
\* C30: the generate_questions endpoint reports the outcome faithfully: a
\* finished request whose materialize call committed is answered with a
\* success response (HTTP 200), and a finished request answered with an error
\* has left no committed AssessmentQuestion row of its own.
C30_ResponseFaithful ==
    \A p \in Procs :
        calls[p].pc = "done"
        => /\ ( calls[p].outcome = "success" => calls[p].http = "200" )
           /\ ( calls[p].http # "200"
                   => ~ ( calls[p].outcome = "success" /\ calls[p].questions_created > 0 ) )

====
